---- MODULE Spec2Model ----
(***************************************************************************)
(* Searcher (src/searcher.py), GraphVisualizer.load_graph_from_file        *)
(* (src/graph_visualizer.py) and main (src/main.py) as a state machine.    *)
(*                                                                         *)
(* A run reads the graph file line by line (load_graph), validates the     *)
(* start and goal arguments (main), and then executes one of the four      *)
(* search loops, one loop iteration per step.  Each loop iteration is a    *)
(* pure operator over the record of the search's local variables, so the   *)
(* same operator is used by the step action and by RunSearch, which runs   *)
(* a search to its end.                                                    *)
(*                                                                         *)
(* Spec      draws each line of the file as load_graph reads it and runs   *)
(*           one search; the visualizer's copy of the graph, which no      *)
(*           search reads, is left out.                                    *)
(* SpecFile  fixes the file's lines first (malformed ones included) and    *)
(*           runs Searcher.__init__: load_graph over the file, then        *)
(*           GraphVisualizer.load_graph_from_file over the same file.      *)
(* SpecSquare loads files that describe a unit square with its diagonals,  *)
(*           all weights 1, and runs a_star_search.                        *)
(* SpecWeighted loads files of the unit square with weights 1 and 3 and    *)
(*           runs a_star_search or best_first_search.                      *)
(* SpecDetour loads files of a map with one far node and runs one of the   *)
(*           four searches.                                                *)
(* SpecSession runs any number of searches, one after another, on the      *)
(*           same Searcher.                                                *)
(***************************************************************************)
EXTENDS Integers, Sequences, FiniteSets, TLC

(* ------------------------------ bounds -------------------------------- *)

\* Number of lines of the graph file.
MaxLines == 3

\* Node labels as they appear after .upper(); LabelOrd is Python's string order.
Labels == {"A", "B", "C"}
LabelOrd == [A |-> 1, B |-> 2, C |-> 3, D |-> 4, Z |-> 26]

\* Labels as written in the file or on the command line: one lower-case
\* spelling, and (command line only) the default goal "Z", in no line of the file.
FileLabels == Labels \cup {"a"}
ArgLabels == Labels \cup {"a", "Z"}

\* Edge weights a line may carry.
Weights == {1, 5}

\* Number of lines of a file of SpecSquare.
MaxSquareLines == 5

\* The edges of the files of SpecSquare: the sides of the unit square (length
\* 1) and its diagonals (length sqrt 2), every one with weight 1.
SquareEdges == {<<"A", "B">>, <<"A", "C">>, <<"B", "D">>, <<"C", "D">>,
                <<"A", "D">>, <<"B", "C">>}

\* The map the file describes: every line gives a node the coordinates of
\* this table (a file whose lines agree on each node's coordinates).
Position == [A |-> <<0, 0>>, B |-> <<1, 0>>, C |-> <<0, 1>>, D |-> <<1, 1>>]

None == "None"

(* --------------------------- small helpers ---------------------------- *)

\* dict[k] = v
Put(d, k, v) == [x \in (DOMAIN d) \cup {k} |-> IF x = k THEN v ELSE d[x]]

EmptyDict == [x \in {} |-> None]

\* Mutant of Reverse: the path is left in goal-to-start order.
ReverseForgotten(s) == s

RECURSIVE Reverse(_)
Reverse(s) == IF s = <<>> THEN <<>> ELSE Append(Reverse(Tail(s)), Head(s))

\* A sort key or a priority: the number g + sqrt(h2), or infinity.  An integer
\* is Num(n); an f-cost with a Euclidean distance keeps the squared distance,
\* so that comparisons are exact.
Num(n) == [g |-> n, h2 |-> 0, inf |-> FALSE]
Infinity == [g |-> 0, h2 |-> 0, inf |-> TRUE]

\* a < b for a = a.g + sqrt(a.h2), b = b.g + sqrt(b.h2)
KeyLess(a, b) ==
    IF a.inf THEN FALSE
    ELSE IF b.inf THEN TRUE
    ELSE LET d == b.g - a.g          \* sqrt(a.h2) - sqrt(b.h2) < d ?
             m == a.h2 + b.h2 - d * d
         IN  IF d = 0 THEN a.h2 < b.h2
             ELSE IF d > 0 THEN a.h2 <= b.h2 \/ m < 0 \/ m * m < 4 * a.h2 * b.h2
             ELSE b.h2 > a.h2 /\ m > 0 /\ m * m > 4 * a.h2 * b.h2

\* list.sort is stable: x goes after every element whose key is not greater.
RECURSIVE InsertSorted(_, _)
InsertSorted(s, x) ==
    IF s = <<>> THEN <<x>>
    ELSE IF KeyLess(x[1], Head(s)[1]) THEN <<x>> \o s
         ELSE <<Head(s)>> \o InsertSorted(Tail(s), x)

RECURSIVE SortPairs(_)
SortPairs(s) ==
    IF s = <<>> THEN <<>>
    ELSE InsertSorted(SortPairs(SubSeq(s, 1, Len(s) - 1)), s[Len(s)])

\* s.sort(key=...), keys[i] being the key of s[i]
sort(s, keys) ==
    LET sorted == SortPairs([i \in DOMAIN s |-> <<keys[i], s[i]>>])
    IN  [i \in DOMAIN s |-> sorted[i][2]]

\* str.upper()
upper(l) == CASE l = "a" -> "A"
              [] l = "b" -> "B"
              [] l = "c" -> "C"
              [] OTHER -> l

\* SearchNode(label, value), src/searcher.py:63
SearchNode(label, value) == [label |-> label, value |-> value]

\* Mutant of by_label: the sort key falls as the label rises, so children
\* are sorted in descending alphabetical order.
by_label_descending(children) ==
    [i \in DOMAIN children |-> Num(27 - LabelOrd[children[i].label])]

\* key=lambda x: x.label, src/searcher.py:253, 299
by_label(children) == [i \in DOMAIN children |-> Num(LabelOrd[children[i].label])]

\* key=lambda x: x[1] in best_first_search, src/searcher.py:326
by_heuristic(priority_queue) ==
    [i \in DOMAIN priority_queue |-> Num(priority_queue[i][2])]

\* key=lambda x: x[1] in a_star_search, src/searcher.py:393
by_f_cost(priority_queue) == [i \in DOMAIN priority_queue |-> priority_queue[i][2]]

(* ------------------------------ state --------------------------------- *)

VARIABLES
    pc,                \* where the run is
    nlines,            \* lines of the file read so far
    graph,             \* Searcher.graph: label -> sequence of SearchNode
    heuristics,        \* Searcher.heuristics: label -> (label -> weight)
    node_coordinates,  \* Searcher.node_coordinates: label -> <<x, y>>
    searchType,        \* Searcher.searchType
    start_node,        \* Searcher.start_node
    goal_node,         \* Searcher.goal_node
    visited,           \* the search's visited set
    parent,            \* the search's parent map (self.parent in a_star_search)
    frontier,          \* bfs: queue, dfs: stack, best/a*: priority_queue
    g_costs,           \* self.g_costs (a_star_search)
    OPEN,              \* Searcher.OPEN
    ret,               \* what the search function returned
    file,              \* SpecFile: the lines of the file
    vlines,            \* SpecFile: lines load_graph_from_file has read
    visualizer         \* SpecFile: GraphVisualizer's nodes, edges, node_map

vars == <<pc, nlines, graph, heuristics, node_coordinates, searchType, start_node,
          goal_node, visited, parent, frontier, g_costs, OPEN, ret, file, vlines,
          visualizer>>

loaderVars == <<graph, heuristics, node_coordinates>>
argVars == <<searchType, start_node, goal_node>>
searchVars == <<visited, parent, frontier, g_costs, OPEN, ret>>
fileVars == <<file, vlines, visualizer>>

(* --------------------------- load_graph ------------------------------- *)

\* A well-formed line: (node, neighbor, weight, node_coords, neighbor_coords).
Line(u, v, w) == <<u, v, w, Position[upper(u)], Position[upper(v)]>>

\* Mutant of graph_add_line: only the node -> neighbor direction is appended.
graph_add_line_one_way(G, parts) ==
    LET node == upper(parts[1])
        neighbor == upper(parts[2])
        G1 == IF node \in DOMAIN G THEN G ELSE Put(G, node, <<>>)
        G2 == IF neighbor \in DOMAIN G1 THEN G1 ELSE Put(G1, neighbor, <<>>)
    IN  [G2 EXCEPT ![node] = Append(@, SearchNode(neighbor, parts[3]))]

\* self.graph after one line, src/searcher.py:100-115
graph_add_line(G, parts) ==
    LET node == upper(parts[1])
        neighbor == upper(parts[2])
        weight == parts[3]
        G1 == IF node \in DOMAIN G THEN G ELSE Put(G, node, <<>>)
        G2 == IF neighbor \in DOMAIN G1 THEN G1 ELSE Put(G1, neighbor, <<>>)
        G3 == [G2 EXCEPT ![node] = Append(@, SearchNode(neighbor, weight))]
    IN  [G3 EXCEPT ![neighbor] = Append(@, SearchNode(node, weight))]

\* self.node_coordinates after one line, src/searcher.py:117-119
coords_add_line(NC, parts) ==
    Put(Put(NC, upper(parts[1]), parts[4]), upper(parts[2]), parts[5])

\* self.heuristics after one line, src/searcher.py:121-129
heuristics_add_line(H, parts) ==
    LET node == upper(parts[1])
        neighbor == upper(parts[2])
        weight == parts[3]
        H1 == IF node \in DOMAIN H THEN H ELSE Put(H, node, EmptyDict)
        H2 == IF neighbor \in DOMAIN H1 THEN H1 ELSE Put(H1, neighbor, EmptyDict)
        H3 == [H2 EXCEPT ![node] = Put(@, neighbor, weight)]
    IN  [H3 EXCEPT ![neighbor] = Put(@, node, weight)]

(* ------------------------- reconstruct_path --------------------------- *)

\* Mutant of EdgeCost: the label test is dropped, every entry of
\* graph[previous] adds its value.
RECURSIVE EdgeCostAnyLabel(_, _)
EdgeCostAnyLabel(neighbors, current) ==
    IF neighbors = <<>> THEN 0
    ELSE Head(neighbors).value + EdgeCostAnyLabel(Tail(neighbors), current)

\* The inner for loop of reconstruct_path: every entry of graph[previous]
\* whose label is current adds its value.
RECURSIVE EdgeCost(_, _)
EdgeCost(neighbors, current) ==
    IF neighbors = <<>> THEN 0
    ELSE (IF Head(neighbors).label = current THEN Head(neighbors).value ELSE 0)
         + EdgeCost(Tail(neighbors), current)

\* The value a search function returns.
Returned(path, total_cost) ==
    [value |-> "tuple", path |-> path, total_cost |-> total_cost]
ReturnedNone == [value |-> "None", path |-> <<>>, total_cost |-> 0]
\* reconstruct_path's while loop never ends (parent.get keeps giving None,
\* or the parent links form a cycle).
NeverReturns == [value |-> "loops", path |-> <<>>, total_cost |-> 0]
NotReturned == [value |-> "running", path |-> <<>>, total_cost |-> 0]

\* The while loop of reconstruct_path; fuel bounds the iterations: a walk
\* that has not met start after every key of parent and None has left it for good.
RECURSIVE reconstruct_loop(_, _, _, _, _, _, _)
reconstruct_loop(P, start, G, current, path, total_cost, fuel) ==
    IF current = start
      THEN Returned(Reverse(Append(path, start)), total_cost)
    ELSE IF fuel = 0 THEN NeverReturns
    ELSE LET previous == IF current \in DOMAIN P THEN P[current] ELSE None
             cost == IF previous # None
                       THEN total_cost + EdgeCost(G[previous], current)
                       ELSE total_cost
         IN  reconstruct_loop(P, start, G, previous, Append(path, current), cost,
                              fuel - 1)

\* Mutant of reconstruct_path: the body of the while loop runs once before
\* current is compared with start.
reconstruct_path_do_while(P, start, goal, G) ==
    LET previous == IF goal \in DOMAIN P THEN P[goal] ELSE None
        cost == IF previous # None THEN EdgeCost(G[previous], goal) ELSE 0
    IN  reconstruct_loop(P, start, G, previous, <<goal>>, cost,
                         Cardinality(DOMAIN P) + 2)

reconstruct_path(P, start, goal, G) ==
    reconstruct_loop(P, start, G, goal, <<>>, 0, Cardinality(DOMAIN P) + 2)

(* ------------------------ the four search loops ----------------------- *)

\* The local variables of a running search function.
Locals(V, P, F, GC, O, R) ==
    [visited |-> V, parent |-> P, frontier |-> F, g_costs |-> GC, OPEN |-> O,
     ret |-> R]

LabelsOf(children) == {children[i].label : i \in DOMAIN children}

\* Mutant of bfs_parents: a child is attached to the parent of the dequeued
\* node (to the dequeued node itself when that is start).
bfs_parents_one_level_up(P, children, current) ==
    [x \in (DOMAIN P) \cup LabelsOf(children) |->
        IF x \in DOMAIN P THEN P[x]
        ELSE IF P[current] = None THEN current ELSE P[current]]

\* bfs, the for loop of src/searcher.py:248-250
bfs_parents(P, children, current) ==
    [x \in (DOMAIN P) \cup LabelsOf(children) |->
        IF x \in DOMAIN P THEN P[x] ELSE current]

\* Mutant of bfs_children: the comprehension stops at the first neighbour
\* it keeps.
bfs_children_first_only(G, current, V, P) ==
    LET kept == SelectSeq(G[current],
                          LAMBDA nb : nb.label \notin V /\ nb.label \notin DOMAIN P)
    IN  IF kept = <<>> THEN <<>> ELSE <<Head(kept)>>

\* bfs, the children of the dequeued node, src/searcher.py:243-246
bfs_children(G, current, V, P) ==
    SelectSeq(G[current], LAMBDA nb : nb.label \notin V /\ nb.label \notin DOMAIN P)

\* Mutant of bfs_iter: children are filtered and their parent recorded the way
\* dfs does it (every unvisited neighbour, parent assigned unconditionally).
bfs_iter_parent_overwritten(G, start, goal, L) ==
    LET current_node == Head(L.frontier)
        queue == Tail(L.frontier)
        label == current_node.label
        V == L.visited \cup {label}
        children == SelectSeq(G[label], LAMBDA nb : nb.label \notin V)
        P == [x \in (DOMAIN L.parent) \cup LabelsOf(children) |->
                IF x \in LabelsOf(children) THEN label ELSE L.parent[x]]
        Q == queue \o sort(children, by_label(children))
    IN  IF label \in L.visited THEN [L EXCEPT !.frontier = queue]
        ELSE IF label = goal
          THEN [L EXCEPT !.frontier = queue, !.visited = V,
                         !.ret = reconstruct_path(L.parent, start, goal, G)]
        ELSE [L EXCEPT !.visited = V, !.parent = P, !.frontier = Q, !.OPEN = Q]

\* One iteration of bfs's while loop, src/searcher.py:224-264
bfs_iter(G, start, goal, L) ==
    LET current_node == Head(L.frontier)
        queue == Tail(L.frontier)
        label == current_node.label
        V == L.visited \cup {label}
        children == bfs_children(G, label, V, L.parent)
        P == bfs_parents(L.parent, children, label)
        Q == queue \o sort(children, by_label(children))
    IN  IF label \in L.visited THEN [L EXCEPT !.frontier = queue]
        ELSE IF label = goal
          THEN [L EXCEPT !.frontier = queue, !.visited = V,
                         !.ret = reconstruct_path(L.parent, start, goal, G)]
        ELSE [L EXCEPT !.visited = V, !.parent = P, !.frontier = Q, !.OPEN = Q]

\* Mutant of dfs_parents: a parent is recorded only for a child that has none.
dfs_parents_first_only(P, children, current) ==
    [x \in (DOMAIN P) \cup LabelsOf(children) |->
        IF x \in DOMAIN P THEN P[x] ELSE current]

\* dfs, the assignment in the for loop of src/searcher.py:304-306
dfs_parents(P, children, current) ==
    [x \in (DOMAIN P) \cup LabelsOf(children) |->
        IF x \in LabelsOf(children) THEN current ELSE P[x]]

\* Mutant of dfs_iter: a popped node that is already visited is put back on
\* the stack instead of being dropped.
dfs_iter_visited_kept(G, start, goal, L) ==
    LET current_node == Head(L.frontier)
        stack == Tail(L.frontier)
        label == current_node.label
        V == L.visited \cup {label}
        unvisited == SelectSeq(G[label], LAMBDA nb : nb.label \notin V)
        children == sort(unvisited, by_label(unvisited))
        S == children \o stack
    IN  IF label \in L.visited THEN [L EXCEPT !.frontier = Append(stack, current_node)]
        ELSE IF label = goal
          THEN [L EXCEPT !.frontier = stack, !.visited = V,
                         !.ret = reconstruct_path(L.parent, start, goal, G)]
        ELSE [L EXCEPT !.visited = V, !.frontier = S, !.OPEN = S,
                       !.parent = dfs_parents(L.parent, children, label)]

\* Mutant of dfs_iter: the parent of every neighbour of the expanded node,
\* the visited ones included, is set to that node.
dfs_iter_parent_of_every_neighbour(G, start, goal, L) ==
    LET current_node == Head(L.frontier)
        stack == Tail(L.frontier)
        label == current_node.label
        V == L.visited \cup {label}
        unvisited == SelectSeq(G[label], LAMBDA nb : nb.label \notin V)
        children == sort(unvisited, by_label(unvisited))
        S == children \o stack
    IN  IF label \in L.visited THEN [L EXCEPT !.frontier = stack]
        ELSE IF label = goal
          THEN [L EXCEPT !.frontier = stack, !.visited = V,
                         !.ret = reconstruct_path(L.parent, start, goal, G)]
        ELSE [L EXCEPT !.visited = V, !.frontier = S, !.OPEN = S,
                       !.parent = dfs_parents(L.parent, G[label], label)]

\* One iteration of dfs's while loop, src/searcher.py:278-310
dfs_iter(G, start, goal, L) ==
    LET current_node == Head(L.frontier)
        stack == Tail(L.frontier)
        label == current_node.label
        V == L.visited \cup {label}
        unvisited == SelectSeq(G[label], LAMBDA nb : nb.label \notin V)
        children == sort(unvisited, by_label(unvisited))
        \* inserting reversed(children) one by one at index 0
        S == children \o stack
    IN  IF label \in L.visited THEN [L EXCEPT !.frontier = stack]
        ELSE IF label = goal
          THEN [L EXCEPT !.frontier = stack, !.visited = V,
                         !.ret = reconstruct_path(L.parent, start, goal, G)]
        ELSE [L EXCEPT !.visited = V, !.frontier = S, !.OPEN = S,
                       !.parent = dfs_parents(L.parent, children, label)]

\* [SearchNode(n[0], n[1]) for n in priority_queue]
OpenOf(priority_queue) ==
    [i \in DOMAIN priority_queue |->
        SearchNode(priority_queue[i][1], priority_queue[i][2])]

\* Mutant of best_parent: the parent is assigned at every discovery.
best_parent_reassigned(P, child, current_node) == Put(P, child, current_node)

\* best_first_search, the parent assignment of src/searcher.py:355-357
best_parent(P, child, current_node) ==
    IF child \in DOMAIN P THEN P ELSE Put(P, child, current_node)

\* Mutant of best_push: a child found again with a smaller heuristic value
\* has its entry removed and a new one appended at the end of the queue.
best_push_reappended(PQ, child, heuristic_value) ==
    IF \A i \in DOMAIN PQ : PQ[i][1] # child
      THEN Append(PQ, <<child, heuristic_value>>)
      ELSE IF \E i \in DOMAIN PQ : PQ[i][1] = child /\ PQ[i][2] > heuristic_value
        THEN Append(SelectSeq(PQ, LAMBDA e : e[1] # child), <<child, heuristic_value>>)
        ELSE PQ

\* Mutant of best_push: the entry of a child that is in the queue already
\* keeps the value it was pushed with.
best_push_first_value_kept(PQ, child, heuristic_value) ==
    IF \A i \in DOMAIN PQ : PQ[i][1] # child
      THEN Append(PQ, <<child, heuristic_value>>)
      ELSE PQ

\* best_first_search, the queue update of src/searcher.py:360-372
best_push(PQ, child, heuristic_value) ==
    IF \A i \in DOMAIN PQ : PQ[i][1] # child
      THEN Append(PQ, <<child, heuristic_value>>)
      ELSE [i \in DOMAIN PQ |->
              IF PQ[i][1] = child /\ PQ[i][2] > heuristic_value
                THEN <<child, heuristic_value>> ELSE PQ[i]]

\* best_first_search, the for loop over children, src/searcher.py:354-372
RECURSIVE best_for_children(_, _, _, _, _)
best_for_children(children, P, PQ, current_node, H) ==
    IF children = <<>> THEN [parent |-> P, priority_queue |-> PQ]
    ELSE LET child == Head(children)
         IN  best_for_children(Tail(children),
                               best_parent(P, child.label, current_node),
                               best_push(PQ, child.label, H[current_node][child.label]),
                               current_node, H)

\* One iteration of best_first_search's while loop, src/searcher.py:324-376
best_iter(G, H, start, goal, L) ==
    LET sorted == sort(L.frontier, by_heuristic(L.frontier))
        current_node == sorted[1][1]
        priority_queue == Tail(sorted)
        V == L.visited \cup {current_node}
        children == SelectSeq(G[current_node], LAMBDA nb : nb.label \notin V)
        after == best_for_children(children, L.parent, priority_queue,
                                   current_node, H)
    IN  IF current_node = goal
          THEN [L EXCEPT !.frontier = priority_queue,
                         !.ret = reconstruct_path(L.parent, start, goal, G)]
        ELSE [L EXCEPT !.visited = V, !.parent = after.parent,
                       !.frontier = after.priority_queue,
                       !.OPEN = OpenOf(after.priority_queue)]

\* euclidean_distance squared, src/searcher.py:131-135
distance2(NC, node1, node2) ==
    (NC[node2][1] - NC[node1][1]) * (NC[node2][1] - NC[node1][1])
    + (NC[node2][2] - NC[node1][2]) * (NC[node2][2] - NC[node1][2])

\* a_star_search, f_cost of a neighbour, src/searcher.py:416-425
f_cost(NC, tentative_g_cost, label, goal) ==
    IF label \in DOMAIN NC /\ goal \in DOMAIN NC
      THEN [g |-> tentative_g_cost, h2 |-> distance2(NC, label, goal), inf |-> FALSE]
      ELSE Infinity

\* Mutant of astar_accepts: an equal tentative g-cost is accepted too.
astar_accepts_equal(GC, label, tentative_g_cost) ==
    label \notin DOMAIN GC \/ tentative_g_cost <= GC[label]

\* a_star_search, the acceptance test of src/searcher.py:428
astar_accepts(GC, label, tentative_g_cost) ==
    label \notin DOMAIN GC \/ tentative_g_cost < GC[label]

\* Mutant of astar_for_children: an accepted neighbour is appended to the
\* queue without its earlier entry being removed.
RECURSIVE astar_for_children_stale_kept(_, _, _, _, _, _, _)
astar_for_children_stale_kept(children, GC, P, PQ, current_node, goal, NC) ==
    IF children = <<>> THEN [g_costs |-> GC, parent |-> P, priority_queue |-> PQ]
    ELSE LET neighbor == Head(children)
             tentative_g_cost == GC[current_node] + neighbor.value
             f == f_cost(NC, tentative_g_cost, neighbor.label, goal)
         IN  IF astar_accepts(GC, neighbor.label, tentative_g_cost)
               THEN astar_for_children_stale_kept(
                        Tail(children),
                        Put(GC, neighbor.label, tentative_g_cost),
                        Put(P, neighbor.label, current_node),
                        Append(PQ, <<neighbor.label, f>>),
                        current_node, goal, NC)
               ELSE astar_for_children_stale_kept(Tail(children), GC, P, PQ,
                                                  current_node, goal, NC)

\* a_star_search, the for loop over children, src/searcher.py:414-435
RECURSIVE astar_for_children(_, _, _, _, _, _, _)
astar_for_children(children, GC, P, PQ, current_node, goal, NC) ==
    IF children = <<>> THEN [g_costs |-> GC, parent |-> P, priority_queue |-> PQ]
    ELSE LET neighbor == Head(children)
             tentative_g_cost == GC[current_node] + neighbor.value
             f == f_cost(NC, tentative_g_cost, neighbor.label, goal)
         IN  IF astar_accepts(GC, neighbor.label, tentative_g_cost)
               THEN astar_for_children(
                        Tail(children),
                        Put(GC, neighbor.label, tentative_g_cost),
                        Put(P, neighbor.label, current_node),
                        Append(SelectSeq(PQ, LAMBDA e : e[1] # neighbor.label),
                               <<neighbor.label, f>>),
                        current_node, goal, NC)
               ELSE astar_for_children(Tail(children), GC, P, PQ, current_node,
                                       goal, NC)

\* Mutant of astar_iter: the neighbours of the popped node are not filtered
\* by the visited set.
astar_iter_visited_reopened(G, NC, start, goal, L) ==
    LET sorted == sort(L.frontier, by_f_cost(L.frontier))
        current_node == sorted[1][1]
        priority_queue == Tail(sorted)
        V == L.visited \cup {current_node}
        children == G[current_node]
        after == astar_for_children(children, L.g_costs, L.parent, priority_queue,
                                    current_node, goal, NC)
    IN  IF current_node = goal
          THEN [L EXCEPT !.frontier = priority_queue,
                         !.ret = reconstruct_path(L.parent, start, goal, G)]
        ELSE [L EXCEPT !.visited = V, !.g_costs = after.g_costs,
                       !.parent = after.parent,
                       !.frontier = after.priority_queue,
                       !.OPEN = OpenOf(after.priority_queue)]

\* One iteration of a_star_search's while loop, src/searcher.py:391-439
astar_iter(G, NC, start, goal, L) ==
    LET sorted == sort(L.frontier, by_f_cost(L.frontier))
        current_node == sorted[1][1]
        priority_queue == Tail(sorted)
        V == L.visited \cup {current_node}
        children == SelectSeq(G[current_node], LAMBDA nb : nb.label \notin V)
        after == astar_for_children(children, L.g_costs, L.parent, priority_queue,
                                    current_node, goal, NC)
    IN  IF current_node = goal
          THEN [L EXCEPT !.frontier = priority_queue,
                         !.ret = reconstruct_path(L.parent, start, goal, G)]
        ELSE [L EXCEPT !.visited = V, !.g_costs = after.g_costs,
                       !.parent = after.parent,
                       !.frontier = after.priority_queue,
                       !.OPEN = OpenOf(after.priority_queue)]

\* What each search function does when its while loop ends with the frontier
\* empty: bfs, dfs and best_first_search return [], 0 (src/searcher.py:267,
\* 313, 379); a_star_search has no return statement after its loop (439).
exhausted(type) ==
    IF type = "A*" THEN ReturnedNone ELSE Returned(<<>>, 0)

\* The locals of a search function before its loop: src/searcher.py:217-219,
\* 271-273, 317-319, 383-386.
initial_locals(type, start, O) ==
    CASE type \in {"BREADTH", "DEPTH"} ->
           Locals({}, Put(EmptyDict, start, None), <<SearchNode(start, 0)>>,
                  EmptyDict, O, NotReturned)
      [] type = "BEST" ->
           Locals({}, Put(EmptyDict, start, None), <<<<start, 0>>>>,
                  EmptyDict, O, NotReturned)
      [] type = "A*" ->
           Locals({}, Put(EmptyDict, start, None), <<<<start, Num(0)>>>>,
                  Put(EmptyDict, start, 0), O, NotReturned)

\* One turn of the while loop of the search function of the given type.
iter(type, G, H, NC, start, goal, L) ==
    IF L.frontier = <<>> THEN [L EXCEPT !.ret = exhausted(type)]
    ELSE CASE type = "BREADTH" -> bfs_iter(G, start, goal, L)
           [] type = "DEPTH" -> dfs_iter(G, start, goal, L)
           [] type = "BEST" -> best_iter(G, H, start, goal, L)
           [] type = "A*" -> astar_iter(G, NC, start, goal, L)

\* The search function run to its return.
RECURSIVE run(_, _, _, _, _, _, _)
run(type, G, H, NC, start, goal, L) ==
    IF L.ret.value # "running" THEN L
    ELSE run(type, G, H, NC, start, goal, iter(type, G, H, NC, start, goal, L))

\* bfs(start, goal) etc. as functions of the loaded graph.
search_result(type, G, H, NC, start, goal) ==
    run(type, G, H, NC, start, goal, initial_locals(type, start, <<>>)).ret

(* ------------------------------ actions ------------------------------- *)

SearchTypes == {"BREADTH", "DEPTH", "BEST", "A*"}

\* GraphVisualizer.__init__, src/graph_visualizer.py:37-42
NoGraph == [nodes |-> <<>>, edges |-> <<>>, node_map |-> EmptyDict]

\* load_graph's effect of one well-formed line on the Searcher.
LoadLine(parts) ==
    /\ graph' = graph_add_line(graph, parts)
    /\ node_coordinates' = coords_add_line(node_coordinates, parts)
    /\ heuristics' = heuristics_add_line(heuristics, parts)

Init ==
    /\ pc = "load"
    /\ nlines = 0
    /\ graph = EmptyDict
    /\ heuristics = EmptyDict
    /\ node_coordinates = EmptyDict
    /\ searchType = None
    /\ start_node = None
    /\ goal_node = None
    /\ visited = {}
    /\ parent = EmptyDict
    /\ frontier = <<>>
    /\ g_costs = EmptyDict
    /\ OPEN = <<>>
    /\ ret = NotReturned
    /\ file = <<>>
    /\ vlines = 0
    /\ visualizer = NoGraph

\* load_graph reads one more line of the file.
load_graph ==
    /\ pc = "load"
    /\ nlines < MaxLines
    /\ \E u \in FileLabels, v \in FileLabels, w \in Weights : LoadLine(Line(u, v, w))
    /\ nlines' = nlines + 1
    /\ UNCHANGED <<pc, argVars, searchVars, fileVars>>

\* main: the file is read, and --start or --goal is no node of the graph.
main_rejects ==
    /\ pc = "load"
    /\ \E s \in ArgLabels, g \in ArgLabels :
         upper(s) \notin DOMAIN graph \/ upper(g) \notin DOMAIN graph
    /\ pc' = "exit1"
    /\ UNCHANGED <<nlines, loaderVars, argVars, searchVars, fileVars>>

SetLocals(L) ==
    /\ visited' = L.visited
    /\ parent' = L.parent
    /\ frontier' = L.frontier
    /\ g_costs' = L.g_costs
    /\ OPEN' = L.OPEN
    /\ ret' = L.ret

CurrentLocals == Locals(visited, parent, frontier, g_costs, OPEN, ret)

\* main: setStartGoal, search_and_reconstruct_path enters the search function.
start_search ==
    /\ pc = "load"
    /\ \E type \in SearchTypes, s \in ArgLabels, g \in ArgLabels :
         /\ upper(s) \in DOMAIN graph
         /\ upper(g) \in DOMAIN graph
         /\ searchType' = type
         /\ start_node' = upper(s)
         /\ goal_node' = upper(g)
         /\ SetLocals(initial_locals(type, upper(s), OPEN))
    /\ pc' = "search"
    /\ UNCHANGED <<nlines, loaderVars, fileVars>>

\* Mutant of Advance: the adjacency lists of the expanded nodes are sorted in
\* place (children.sort() applied to self.graph[label] itself).
Advance_adjacency_sorted(L) ==
    /\ SetLocals(L)
    /\ pc' = CASE L.ret.value = "running" -> "search"
               [] L.ret.value = "loops" -> "hang"
               [] OTHER -> "returned"
    /\ graph' = [u \in DOMAIN graph |->
                    IF u \in L.visited THEN sort(graph[u], by_label(graph[u]))
                    ELSE graph[u]]
    /\ UNCHANGED <<nlines, heuristics, node_coordinates, argVars, fileVars>>

\* The running search function takes one turn of its while loop, or leaves it.
Advance(L) ==
    /\ SetLocals(L)
    /\ pc' = CASE L.ret.value = "running" -> "search"
               [] L.ret.value = "loops" -> "hang"
               [] OTHER -> "returned"
    /\ UNCHANGED <<nlines, loaderVars, argVars, fileVars>>

bfs ==
    /\ pc = "search"
    /\ searchType = "BREADTH"
    /\ Advance(iter("BREADTH", graph, heuristics, node_coordinates, start_node,
                    goal_node, CurrentLocals))

dfs ==
    /\ pc = "search"
    /\ searchType = "DEPTH"
    /\ Advance(iter("DEPTH", graph, heuristics, node_coordinates, start_node,
                    goal_node, CurrentLocals))

best_first_search ==
    /\ pc = "search"
    /\ searchType = "BEST"
    /\ Advance(iter("BEST", graph, heuristics, node_coordinates, start_node,
                    goal_node, CurrentLocals))

a_star_search ==
    /\ pc = "search"
    /\ searchType = "A*"
    /\ Advance(iter("A*", graph, heuristics, node_coordinates, start_node,
                    goal_node, CurrentLocals))

\* search_and_reconstruct_path unpacks what the search function returned
\* (path, total_cost = ...), and main prints it.
search_and_reconstruct_path ==
    /\ pc = "returned"
    /\ pc' = IF ret.value = "tuple" THEN "exit0" ELSE "TypeError"
    /\ UNCHANGED <<nlines, loaderVars, argVars, searchVars, fileVars>>

Next ==
    \/ load_graph
    \/ main_rejects
    \/ start_search
    \/ bfs
    \/ dfs
    \/ best_first_search
    \/ a_star_search
    \/ search_and_reconstruct_path

Spec == Init /\ [][Next]_vars

(* ------------- SpecFile: Searcher.__init__ over a given file ---------- *)

\* A line of the file.  "edge" is written as the sample files write it,
\* ('A', 'B', 1, [0, 0], [1, 0]); "quoted" is the same tuple with its labels in
\* double quotes, which eval reads alike and the visualizer's pattern does not
\* match; "malformed" lacks a coordinate bracket, ('A', 'B', 1, [0, 0], [1, 0).
EdgeLine(kind, u, v, w) == [kind |-> kind, parts |-> Line(u, v, w)]
MalformedLine == [kind |-> "malformed", parts |-> <<>>]

FileLines ==
    {EdgeLine(k, u, v, 1) : k \in {"edge", "quoted"}, u \in {"A", "a", "B"},
                            v \in {"B", "C"}}
    \cup {MalformedLine}

Files == UNION {[1..n -> FileLines] : n \in 0..MaxLines}

\* eval(line.strip()) raises SyntaxError, src/searcher.py:99
eval_raises(line) == line.kind = "malformed"

\* pattern.match(line.strip()), src/graph_visualizer.py:46-52
pattern_matches(line) == line.kind = "edge"

\* Node(x, y, label), src/graph_elements.py:31-35
Node(x, y, label) == [x |-> x, y |-> y, label |-> label]

\* GraphVisualizer after one matching line, src/graph_visualizer.py:55-72:
\* the labels are kept as written, and a node keeps its first coordinates.
visualizer_add_line(viz, parts) ==
    LET node1 == parts[1]
        node2 == parts[2]
        map1 == IF node1 \in DOMAIN viz.node_map THEN viz.node_map
                ELSE Put(viz.node_map, node1, Node(parts[4][1], parts[4][2], node1))
        nodes1 == IF node1 \in DOMAIN viz.node_map THEN viz.nodes
                  ELSE Append(viz.nodes, map1[node1])
        map2 == IF node2 \in DOMAIN map1 THEN map1
                ELSE Put(map1, node2, Node(parts[5][1], parts[5][2], node2))
        nodes2 == IF node2 \in DOMAIN map1 THEN nodes1
                  ELSE Append(nodes1, map2[node2])
        new_edge == [node1 |-> map2[node1], node2 |-> map2[node2], cost |-> parts[3],
                     label1 |-> node1, label2 |-> node2]
    IN  [nodes |-> nodes2, edges |-> Append(viz.edges, new_edge), node_map |-> map2]

InitFile ==
    /\ pc = "load"
    /\ nlines = 0
    /\ graph = EmptyDict
    /\ heuristics = EmptyDict
    /\ node_coordinates = EmptyDict
    /\ searchType = None
    /\ start_node = None
    /\ goal_node = None
    /\ visited = {}
    /\ parent = EmptyDict
    /\ frontier = <<>>
    /\ g_costs = EmptyDict
    /\ OPEN = <<>>
    /\ ret = NotReturned
    /\ file \in Files
    /\ vlines = 0
    /\ visualizer = NoGraph

\* load_graph reads the next line of the file: eval raises on a malformed
\* line and nothing catches it, else the line is added to the graph.
load_graph_next_line ==
    /\ pc = "load"
    /\ nlines < Len(file)
    /\ IF eval_raises(file[nlines + 1])
         THEN pc' = "SyntaxError" /\ UNCHANGED loaderVars
         ELSE pc' = "load" /\ LoadLine(file[nlines + 1].parts)
    /\ nlines' = nlines + 1
    /\ UNCHANGED <<argVars, searchVars, fileVars>>

\* load_graph has read the whole file: Searcher.__init__ goes on to
\* self.visualizer.load_graph_from_file(filename), src/searcher.py:86-87
load_graph_returns ==
    /\ pc = "load"
    /\ nlines = Len(file)
    /\ pc' = "visualizer"
    /\ UNCHANGED <<nlines, loaderVars, argVars, searchVars, fileVars>>

\* load_graph_from_file reads the next line: added when the pattern
\* matches, skipped with a message when it does not.
load_graph_from_file ==
    /\ pc = "visualizer"
    /\ vlines < Len(file)
    /\ visualizer' = IF pattern_matches(file[vlines + 1])
                       THEN visualizer_add_line(visualizer, file[vlines + 1].parts)
                       ELSE visualizer
    /\ vlines' = vlines + 1
    /\ UNCHANGED <<pc, nlines, loaderVars, argVars, searchVars, file>>

\* Searcher.__init__ returns.
searcher_constructed ==
    /\ pc = "visualizer"
    /\ vlines = Len(file)
    /\ pc' = "constructed"
    /\ UNCHANGED <<nlines, loaderVars, argVars, searchVars, fileVars>>

NextFile ==
    \/ load_graph_next_line
    \/ load_graph_returns
    \/ load_graph_from_file
    \/ searcher_constructed

SpecFile == InitFile /\ [][NextFile]_vars

(* ------------- SpecSquare: a_star_search on the square map ------------ *)

\* load_graph reads one more line of a file of the square map.
load_graph_square ==
    /\ pc = "load"
    /\ nlines < MaxSquareLines
    /\ \E e \in SquareEdges : LoadLine(Line(e[1], e[2], 1))
    /\ nlines' = nlines + 1
    /\ UNCHANGED <<pc, argVars, searchVars, fileVars>>

\* main with --search A*: setStartGoal, a_star_search is entered.
start_a_star ==
    /\ pc = "load"
    /\ \E s \in DOMAIN graph, g \in DOMAIN graph :
         /\ searchType' = "A*"
         /\ start_node' = s
         /\ goal_node' = g
         /\ SetLocals(initial_locals("A*", s, OPEN))
    /\ pc' = "search"
    /\ UNCHANGED <<nlines, loaderVars, fileVars>>

NextSquare ==
    \/ load_graph_square
    \/ start_a_star
    \/ a_star_search
    \/ search_and_reconstruct_path

SpecSquare == Init /\ [][NextSquare]_vars

(* --- SpecWeighted: the two priority searches on the weighted square --- *)

\* Number of lines of a file of SpecWeighted.
MaxWeightedLines == 4

\* The lines of the files of SpecWeighted, (node, neighbor, weight): on the
\* unit square, the sides A-B, A-C, B-D, C-D and the diagonal B-C with weight
\* 1, and the side A-B with weight 3 as well.
WeightedEdges == {<<"A", "B", 1>>, <<"A", "B", 3>>, <<"A", "C", 1>>,
                  <<"B", "C", 1>>, <<"B", "D", 1>>, <<"C", "D", 1>>}

\* load_graph reads one more line of a file of the weighted square map.
load_graph_weighted ==
    /\ pc = "load"
    /\ nlines < MaxWeightedLines
    /\ \E e \in WeightedEdges : LoadLine(Line(e[1], e[2], e[3]))
    /\ nlines' = nlines + 1
    /\ UNCHANGED <<pc, argVars, searchVars, fileVars>>

\* main with --search BEST: setStartGoal, best_first_search is entered.
start_best_first ==
    /\ pc = "load"
    /\ \E s \in DOMAIN graph, g \in DOMAIN graph :
         /\ searchType' = "BEST"
         /\ start_node' = s
         /\ goal_node' = g
         /\ SetLocals(initial_locals("BEST", s, OPEN))
    /\ pc' = "search"
    /\ UNCHANGED <<nlines, loaderVars, fileVars>>

NextWeighted ==
    \/ load_graph_weighted
    \/ start_a_star
    \/ start_best_first
    \/ a_star_search
    \/ best_first_search
    \/ search_and_reconstruct_path

SpecWeighted == Init /\ [][NextWeighted]_vars

(* ------- SpecDetour: the four searches on a map with a far node ------- *)

\* Number of lines of a file of SpecDetour.
MaxDetourLines == 4

\* The map of the files of SpecDetour: C lies far from the other nodes.
DetourPosition == [A |-> <<0, 0>>, B |-> <<1, 0>>, C |-> <<1, 5>>, D |-> <<1, 1>>]

\* The lines of the files of SpecDetour, (node, neighbor, weight).
DetourEdges == {<<"A", "B", 3>>, <<"A", "C", 1>>, <<"B", "C", 1>>,
                <<"B", "D", 3>>, <<"C", "D", 1>>}

\* load_graph reads one more line of a file of the detour map.
load_graph_detour ==
    /\ pc = "load"
    /\ nlines < MaxDetourLines
    /\ \E e \in DetourEdges :
         LoadLine(<<e[1], e[2], e[3], DetourPosition[e[1]], DetourPosition[e[2]]>>)
    /\ nlines' = nlines + 1
    /\ UNCHANGED <<pc, argVars, searchVars, fileVars>>

\* main: both labels are nodes of the graph; setStartGoal, and
\* search_and_reconstruct_path enters the search function of --search.
start_detour ==
    /\ pc = "load"
    /\ \E type \in SearchTypes, s \in DOMAIN graph, g \in DOMAIN graph :
         /\ searchType' = type
         /\ start_node' = s
         /\ goal_node' = g
         /\ SetLocals(initial_locals(type, s, OPEN))
    /\ pc' = "search"
    /\ UNCHANGED <<nlines, loaderVars, fileVars>>

NextDetour ==
    \/ load_graph_detour
    \/ start_detour
    \/ bfs
    \/ dfs
    \/ best_first_search
    \/ a_star_search
    \/ search_and_reconstruct_path

SpecDetour == Init /\ [][NextDetour]_vars

(* ------ SpecSession: several searches on one Searcher, in sequence ----- *)

\* Number of lines of a file of SpecSession.
MaxSessionLines == 3

\* The lines of the files of SpecSession, (node, neighbor, weight), on the
\* detour map.
SessionEdges == {<<"A", "B", 3>>, <<"A", "C", 1>>, <<"B", "C", 1>>}

\* load_graph reads one more line of a file of SpecSession.
load_graph_session ==
    /\ pc = "load"
    /\ nlines < MaxSessionLines
    /\ \E e \in SessionEdges :
         LoadLine(<<e[1], e[2], e[3], DetourPosition[e[1]], DetourPosition[e[2]]>>)
    /\ nlines' = nlines + 1
    /\ UNCHANGED <<pc, argVars, searchVars, fileVars>>

\* Mutant of next_locals: a_star_search writes g_costs[start] = 0 into the
\* g_costs the instance already has instead of replacing them.
next_locals_g_costs_kept(type, start, L) ==
    [initial_locals(type, start, L.OPEN) EXCEPT
        !.g_costs = Put(L.g_costs, start, 0)]

\* The locals of a search function entered on a Searcher that earlier
\* searches have left in L: visited, parent and the frontier are made anew
\* (src/searcher.py:217-219, 271-273, 317-319, 383-386); self.OPEN is what
\* the last search left; self.g_costs is replaced by a_star_search (385) and
\* is an attribute no other search function assigns.  (self.parent, which
\* a_star_search replaces as well (386), is read by no search function but
\* a_star_search; the parent map here is the one of the running function.)
next_locals(type, start, L) ==
    [initial_locals(type, start, L.OPEN) EXCEPT
        !.g_costs = IF type = "A*" THEN @ ELSE L.g_costs]

\* The caller, a search function having returned (or none having run yet),
\* sets searchType, calls setStartGoal with two nodes of the graph and enters
\* the search function.
search_again ==
    /\ pc \in {"load", "returned"}
    /\ \E type \in SearchTypes, s \in DOMAIN graph, g \in DOMAIN graph :
         /\ searchType' = type
         /\ start_node' = s
         /\ goal_node' = g
         /\ SetLocals(next_locals(type, s, CurrentLocals))
    /\ pc' = "search"
    /\ UNCHANGED <<nlines, loaderVars, fileVars>>

NextSession ==
    \/ load_graph_session
    \/ search_again
    \/ bfs
    \/ dfs
    \/ best_first_search
    \/ a_star_search

SpecSession == Init /\ [][NextSession]_vars

(* ---------------------- graph notions of the claims ------------------- *)

\* The nodes one edge away from a node of S.
Adjacent(G, S) == UNION {{G[u][i].label : i \in DOMAIN G[u]} : u \in S}

\* The nodes that some path of the graph joins to a node of S.
RECURSIVE ReachableFrom(_, _)
ReachableFrom(G, S) ==
    IF Adjacent(G, S) \subseteq S THEN S ELSE ReachableFrom(G, S \cup Adjacent(G, S))

GoalReachable == goal_node \in ReachableFrom(graph, {start_node})

Connected(G) == \A u \in DOMAIN G : ReachableFrom(G, {u}) = DOMAIN G

\* The least number of edges of a path from a node of S to g, counted from k
\* (g is reachable from S).
RECURSIVE HopsFrom(_, _, _, _)
HopsFrom(G, S, g, k) ==
    IF g \in S THEN k ELSE HopsFrom(G, S \cup Adjacent(G, S), g, k + 1)

MinHops(G, s, g) == HopsFrom(G, {s}, g, 0)

EqualWeights(G) ==
    \A u \in DOMAIN G, v \in DOMAIN G :
        \A i \in DOMAIN G[u], j \in DOMAIN G[v] : G[u][i].value = G[v][j].value

\* Consecutive nodes of the path are joined by an edge of the graph.
IsPath(G, path) ==
    \A i \in 1..(Len(path) - 1) :
        \E k \in DOMAIN G[path[i]] : G[path[i]][k].label = path[i + 1]

\* The weights of the edges that join u to v.
EdgeWeights(G, u, v) == {G[u][k].value : k \in {i \in DOMAIN G[u] : G[u][i].label = v}}

\* The sums of one connecting edge's weight per consecutive pair of the path.
RECURSIVE PathCosts(_, _)
PathCosts(G, path) ==
    IF Len(path) <= 1 THEN {0}
    ELSE {w + c : w \in EdgeWeights(G, path[1], path[2]),
                  c \in PathCosts(G, Tail(path))}

\* How many entries of the list equal e.
Count(list, e) == Cardinality({i \in DOMAIN list : list[i] = e})

\* The graph of the scenario: A-B weight 1, B-C weight 1, A-C weight 5, each
\* edge in one line of the file, the lines in any order.
IsScenarioGraph ==
    /\ nlines = 3
    /\ DOMAIN graph = {"A", "B", "C"}
    /\ \A u \in DOMAIN graph : Len(graph[u]) = 2
    /\ Count(graph["A"], SearchNode("B", 1)) = 1
    /\ Count(graph["B"], SearchNode("C", 1)) = 1
    /\ Count(graph["A"], SearchNode("C", 5)) = 1

Last(s) == s[Len(s)]

(* ------------------------------ claims -------------------------------- *)

\* C1: for each of the four strategies, when the frontier empties without the
\* goal having been dequeued (goal not reachable from start), the search
\* returns ([], 0), and search_and_reconstruct_path unpacks it without raising.
C1_UnreachableReturnsEmptyPair ==
    /\ (pc = "returned" /\ ~GoalReachable) => ret = Returned(<<>>, 0)
    /\ pc # "TypeError"

\* C2 (as claimed): on A-B(1), B-C(1), A-C(5), start A, goal C, bfs returns
\* [A, B, C] with total cost 2.
C2_BfsScenarioReturnsABC ==
    (IsScenarioGraph /\ searchType = "BREADTH" /\ start_node = "A"
        /\ goal_node = "C" /\ pc = "returned")
    => ret = Returned(<<"A", "B", "C">>, 2)

\* C2 (amended): on A-B(1), B-C(1), A-C(5), start A, goal C, bfs returns the
\* one-edge path [A, C] with total cost 5.
C2_BfsScenarioReturnsAC ==
    (IsScenarioGraph /\ searchType = "BREADTH" /\ start_node = "A"
        /\ goal_node = "C" /\ pc = "returned")
    => ret = Returned(<<"A", "C">>, 5)

C2_Witness ==
    /\ IsScenarioGraph /\ searchType = "BREADTH" /\ start_node = "A"
    /\ goal_node = "C" /\ pc = "returned" /\ "B" \in visited

\* C3: on A-B(1), B-C(1), A-C(5), start A, goal C, dfs returns [A, B, C] with
\* total cost 2.
C3_DfsScenarioReturnsABC ==
    (IsScenarioGraph /\ searchType = "DEPTH" /\ start_node = "A"
        /\ goal_node = "C" /\ pc = "returned")
    => ret = Returned(<<"A", "B", "C">>, 2)

C3_Witness ==
    /\ IsScenarioGraph /\ searchType = "DEPTH" /\ start_node = "A"
    /\ goal_node = "C" /\ pc = "returned" /\ parent["C"] = "B"

\* C4: on a graph whose edge weights are all equal, for a goal reachable from
\* start, the path bfs returns is a path of the graph from start to goal
\* with the least number of edges of all such paths.
C4_BfsMinimumHops ==
    (pc = "returned" /\ searchType = "BREADTH" /\ EqualWeights(graph)
        /\ GoalReachable)
    => /\ ret.value = "tuple"
       /\ ret.path # <<>>
       /\ Head(ret.path) = start_node
       /\ Last(ret.path) = goal_node
       /\ IsPath(graph, ret.path)
       /\ Len(ret.path) - 1 = MinHops(graph, start_node, goal_node)

\* bfs has returned the one-edge path on an equal-weight triangle, where a
\* two-edge path joins start to goal as well.
C4_Witness ==
    /\ pc = "returned" /\ searchType = "BREADTH" /\ EqualWeights(graph)
    /\ nlines = 3 /\ DOMAIN graph = {"A", "B", "C"}
    /\ \A u \in DOMAIN graph : LabelsOf(graph[u]) = DOMAIN graph \ {u}
    /\ Len(ret.path) = 2 /\ start_node # goal_node

\* C5: for each of the four strategies on a connected graph, whenever the goal
\* is dequeued (the search function returns from inside its loop, where it
\* calls reconstruct_path on its own parent map), the returned path is
\* non-empty, starts with start and ends with goal.
C5_ReconstructedPathEnds ==
    [][(pc = "search" /\ frontier # <<>> /\ ret'.value # "running"
          /\ Connected(graph))
       => /\ ret'.value = "tuple"
          /\ ret'.path # <<>>
          /\ Head(ret'.path) = start_node
          /\ Last(ret'.path) = goal_node]_vars

\* a_star_search has returned a path of three nodes on a connected graph.
C5_Witness ==
    /\ pc = "returned" /\ Connected(graph) /\ searchType = "A*"
    /\ Len(ret.path) = 3 /\ ret.path[1] = start_node /\ ret.path[3] = goal_node

\* C6: for bfs and dfs on every graph the loader can build, whenever a
\* non-empty path is returned, the total cost is the sum, over the consecutive
\* nodes of the path, of the weight of one connecting edge per pair.
C6_CostIsSumOfPathEdges ==
    (pc = "returned" /\ searchType \in {"BREADTH", "DEPTH"} /\ ret.path # <<>>)
    => ret.total_cost \in PathCosts(graph, ret.path)

\* C7: after each line load_graph has processed, the adjacency mapping is
\* symmetric with multiplicity: graph[u] holds (v, w) as many times as graph[v]
\* holds (u, w).
C7_AdjacencySymmetric ==
    \A u \in DOMAIN graph, v \in DOMAIN graph, w \in Weights :
        Count(graph[u], SearchNode(v, w)) = Count(graph[v], SearchNode(u, w))

\* Two lines for the same pair and weight and one more edge have been loaded.
C7_Witness ==
    /\ nlines = 3
    /\ DOMAIN graph = {"A", "B", "C"}
    /\ Count(graph["A"], SearchNode("B", 1)) = 2
    /\ Count(graph["B"], SearchNode("A", 1)) = 2
    /\ Count(graph["C"], SearchNode("B", 5)) = 1

\* C9: in best_first_search an entry of the parent map, once made, is never
\* changed or removed, also when the node is re-discovered from another
\* expanded node with a smaller heuristic value; then only its priority in the
\* frontier is lowered (to that smaller value).
C9_BestFirstParentFixed ==
    [][(pc = "search" /\ searchType = "BEST")
       => /\ \A n \in DOMAIN parent : n \in DOMAIN parent' /\ parent'[n] = parent[n]
          /\ \A i \in DOMAIN frontier, j \in DOMAIN frontier' :
                frontier'[j][1] = frontier[i][1] => frontier'[j][2] <= frontier[i][2]]_vars

\* A frontier node whose priority is below the heuristic value from its
\* recorded parent: it was re-discovered from another node with a smaller one.
C9_Witness ==
    /\ pc = "search" /\ searchType = "BEST"
    /\ \E i \in DOMAIN frontier :
          LET n == frontier[i][1]
          IN  /\ parent[n] # None
              /\ parent[n] \in visited
              /\ frontier[i][2] < heuristics[parent[n]][n]

\* The straight-line distance to goal, as a number of KeyLess.
StraightLine(NC, n, goal) == [g |-> 0, h2 |-> distance2(NC, n, goal), inf |-> FALSE]

\* h(u) <= weight(u, v) + h(v) for every edge of the graph.
Consistent(G, NC, goal) ==
    \A u \in DOMAIN G : \A i \in DOMAIN G[u] :
        ~KeyLess([g |-> G[u][i].value, h2 |-> distance2(NC, G[u][i].label, goal),
                  inf |-> FALSE],
                 StraightLine(NC, u, goal))

\* h(u) is at most the cost of a cheapest path from u to goal; the weights
\* being equal, that is the weight times the least number of edges.
Admissible(G, NC, goal) ==
    \A u \in ReachableFrom(G, {goal}) :
        ~KeyLess(Num(G[u][1].value * MinHops(G, u, goal)), StraightLine(NC, u, goal))

\* C8: in a_star_search on an equal-weight graph whose coordinates make the
\* straight-line distance a consistent, admissible heuristic, for a goal
\* reachable from start the returned total cost is at most the total cost bfs
\* returns for the same pair.
C8_AStarCostAtMostBfsCost ==
    (pc = "returned" /\ searchType = "A*" /\ EqualWeights(graph) /\ GoalReachable
        /\ Consistent(graph, node_coordinates, goal_node)
        /\ Admissible(graph, node_coordinates, goal_node))
    => /\ ret.value = "tuple"
       /\ ret.total_cost <= search_result("BREADTH", graph, heuristics,
                                          node_coordinates, start_node,
                                          goal_node).total_cost

\* The well-formed lines of the file, as load_graph adds them.
RECURSIVE GraphOfLines(_, _)
GraphOfLines(G, lines) ==
    IF lines = <<>> THEN G
    ELSE GraphOfLines(IF eval_raises(Head(lines)) THEN G
                      ELSE graph_add_line(G, Head(lines).parts),
                      Tail(lines))

\* A file of three lines, the second malformed and the other two well-formed.
MalformedBetweenWellFormed ==
    /\ Len(file) = 3
    /\ file[1].kind = "edge" /\ file[2].kind = "malformed" /\ file[3].kind = "edge"

\* C10: when the file holds a malformed line between well-formed lines, the
\* engine's loader skips the malformed line without a fatal error, and the
\* well-formed lines before and after it are all in the loaded graph.
C10_MalformedLineSkipped ==
    MalformedBetweenWellFormed
    => /\ pc # "SyntaxError"
       /\ nlines = Len(file) => graph = GraphOfLines(EmptyDict, file)

\* A search function has been entered by this run of main.
SearchStarted == pc \in {"search", "hang", "returned", "exit0", "TypeError"}

\* C11: a run of main exits with code 1 before any search is started if the
\* upper-cased start or goal label is absent from the loaded graph; otherwise,
\* for each of the four --search choices, it finishes normally (exit 0), the
\* search function having returned a path with its cost or an empty path:
\* no run ends in an uncaught exception or in a loop that never ends.
C11_MainExitCodes ==
    /\ pc = "exit1" => (searchType = None /\ ret = NotReturned /\ frontier = <<>>)
    /\ SearchStarted => (start_node \in DOMAIN graph /\ goal_node \in DOMAIN graph)
    /\ pc \notin {"TypeError", "hang"}
    /\ pc = "exit0" => ret.value = "tuple"

\* The labels of the entries of the frontier (SearchNode objects in bfs and
\* dfs, (label, value) tuples in best_first_search and a_star_search).
FrontierNodes ==
    IF searchType \in {"BREADTH", "DEPTH"}
      THEN {frontier[i].label : i \in DOMAIN frontier}
      ELSE {frontier[i][1] : i \in DOMAIN frontier}

\* The nodes of the graph not yet marked visited.
Unvisited(V) == Cardinality(DOMAIN graph \ V)

\* C12: on every graph the loader builds and every start/goal pair of its
\* nodes, each of the four search loops ends after finitely many pops, by
\* dequeuing the goal or by emptying the frontier: a turn of the loop either
\* leaves the loop in one of these two ways, or marks one more node visited,
\* or drops an entry of the frontier and adds none, so the pair (number of
\* unvisited nodes, length of the frontier) falls in lexicographic order at
\* every pop and the loop cannot go on for ever.
C12_SearchLoopTerminates ==
    [][pc = "search"
       => \/ /\ pc' = "returned"
             /\ \/ frontier = <<>>
                \/ /\ goal_node \in FrontierNodes
                   /\ Len(frontier') = Len(frontier) - 1
                   /\ ret'.path # <<>>
          \/ /\ pc' = "search"
             /\ frontier # <<>>
             /\ \/ Unvisited(visited') < Unvisited(visited)
                \/ /\ Unvisited(visited') = Unvisited(visited)
                   /\ Len(frontier') < Len(frontier)]_vars

\* dfs is about to pop a node that is already visited (it was pushed twice),
\* with another entry still waiting behind it.
C12_Witness ==
    /\ pc = "search" /\ searchType = "DEPTH" /\ Len(frontier) >= 2
    /\ Head(frontier).label \in visited

\* The label of the node a turn of bfs or dfs pops.
Popped == Head(frontier).label

\* The turn of the loop expands the popped node: it is neither visited
\* already nor the goal.
Expands == frontier # <<>> /\ Popped \notin visited /\ Popped # goal_node

\* The neighbours of the popped node that are not visited when its children
\* are generated.
UnvisitedNeighbours == Adjacent(graph, {Popped}) \ (visited \cup {Popped})

\* C13 (as claimed): in bfs and in dfs a parent is recorded only for a
\* neighbour that has no entry in the parent map yet, so an entry of the
\* parent map is never overwritten later in the same search.
C13_ParentNeverOverwritten ==
    [][(pc = "search" /\ searchType \in {"BREADTH", "DEPTH"})
       => \A n \in DOMAIN parent : n \in DOMAIN parent' /\ parent'[n] = parent[n]]_vars

\* C13 (amended): bfs records a parent only for a neighbour that has no entry
\* in the parent map yet and never overwrites an entry; dfs sets the parent of
\* every unvisited neighbour of the node it expands to that node, overwriting
\* an earlier entry, and leaves every other entry, those of the visited nodes
\* among them, as it is.
C13_ParentBfsFirstDfsLatest ==
    [][/\ (pc = "search" /\ searchType = "BREADTH")
          => /\ \A n \in DOMAIN parent :
                   n \in DOMAIN parent' /\ parent'[n] = parent[n]
             /\ \A n \in DOMAIN parent' \ DOMAIN parent :
                   Expands /\ n \in UnvisitedNeighbours /\ parent'[n] = Popped
       /\ (pc = "search" /\ searchType = "DEPTH")
          => /\ DOMAIN parent \subseteq DOMAIN parent'
             /\ \A n \in DOMAIN parent' :
                   IF Expands /\ n \in UnvisitedNeighbours
                     THEN parent'[n] = Popped
                     ELSE n \in DOMAIN parent /\ parent'[n] = parent[n]
             /\ \A n \in visited' \cap DOMAIN parent : parent'[n] = parent[n]]_vars

\* dfs has replaced the parent of a neighbour of start: start, expanded
\* first, was its parent, and a node expanded later is its parent now.
C13_Witness ==
    /\ pc = "search" /\ searchType = "DEPTH"
    /\ \E n \in Adjacent(graph, {start_node}) \ {start_node} :
          /\ n \in DOMAIN parent
          /\ parent[n] \notin {start_node, None}
          /\ n \notin visited

\* The node a turn of a_star_search pops: the first entry of the frontier
\* once sorted by f-cost.
AStarPopped == sort(frontier, by_f_cost(frontier))[1][1]

\* The entry of node n is in the frontier F with the value f.
HasEntry(F, n, f) == \E j \in DOMAIN F : F[j] = <<n, f>>

\* C14: in a_star_search the recorded g-cost of a node never rises; in a turn
\* of the loop g_costs[n], parent[n] and n's frontier entry are written only
\* when n had no g-cost or a tentative g-cost (the g-cost of the popped node
\* plus the weight of an edge to n) is strictly lower than the recorded one;
\* when the g-cost of n stays as it is, so do its parent and frontier entry.
C14_GCostNonIncreasing ==
    [][(pc = "search" /\ searchType = "A*" /\ frontier # <<>>)
       => /\ \A n \in DOMAIN g_costs :
                /\ n \in DOMAIN g_costs'
                /\ g_costs'[n] <= g_costs[n]
                /\ g_costs'[n] = g_costs[n]
                   => /\ parent'[n] = parent[n]
                      /\ \A i \in DOMAIN frontier :
                            (frontier[i][1] = n /\ n # AStarPopped)
                            => HasEntry(frontier', n, frontier[i][2])
          /\ \A n \in DOMAIN g_costs' :
                (n \notin DOMAIN g_costs \/ g_costs'[n] < g_costs[n])
                => /\ parent'[n] = AStarPopped
                   /\ \E w \in EdgeWeights(graph, AStarPopped, n) :
                         g_costs'[n] = g_costs[AStarPopped] + w
                   /\ HasEntry(frontier', n,
                               f_cost(node_coordinates, g_costs'[n], n, goal_node))]_vars

\* An expanded node q has an edge to a frontier node n whose tentative g-cost
\* from q equals the recorded one, and the parent of n is another node: the
\* route through q was not accepted.
C14_Witness ==
    /\ pc = "search" /\ searchType = "A*"
    /\ \E n \in FrontierNodes, q \in visited :
          /\ parent[n] # q
          /\ \E w \in EdgeWeights(graph, q, n) : g_costs[q] + w = g_costs[n]

\* A frontier node whose recorded g-cost is below the weight of an edge that
\* joins it to start, which was expanded first: a strictly lower tentative
\* g-cost has replaced the first one.
LowerGCostAccepted ==
    /\ pc = "search" /\ searchType = "A*"
    /\ \E n \in FrontierNodes :
          /\ parent[n] # start_node
          /\ \E w \in EdgeWeights(graph, start_node, n) : g_costs[n] < w

\* g_costs[n] + h(n, goal), h the straight-line distance between the
\* coordinates of n and of goal.
GPlusH(GC, NC, n, goal) ==
    [g |-> GC[n], h2 |-> distance2(NC, n, goal), inf |-> FALSE]

\* No two entries of the frontier F are for the same node.
OneEntryPerNode(F) == \A i \in DOMAIN F, j \in DOMAIN F : F[i][1] = F[j][1] => i = j

\* The turn of the loop pops an entry whose key no key of the frontier is
\* below (keys[i] is the priority of frontier[i]): its node is the goal and
\* the search returns, or it is marked visited; either way it is in the
\* frontier no more.
PopsSmallest(keys) ==
    \E i \in DOMAIN frontier :
        /\ \A j \in DOMAIN frontier : ~KeyLess(keys[j], keys[i])
        /\ \/ pc' = "returned" /\ frontier[i][1] = goal_node /\ visited' = visited
           \/ pc' = "search" /\ visited' = visited \cup {frontier[i][1]}
        /\ \A j \in DOMAIN frontier' : frontier'[j][1] # frontier[i][1]

\* The f-costs of the entries of the frontier of a_star_search.
FCosts == [i \in DOMAIN frontier |-> frontier[i][2]]

\* C15 (as claimed): in a_star_search, at every point of the run the frontier
\* holds at most one entry per node, no frontier node is in the visited set,
\* every frontier entry (n, f) has f = g_costs[n] + h(n, goal), and pop
\* removes an entry with the smallest f-cost of the frontier.
C15_AStarFrontierInvariant ==
    [][/\ (pc' = "search" /\ searchType' = "A*")
          => /\ OneEntryPerNode(frontier')
             /\ \A i \in DOMAIN frontier' :
                   /\ frontier'[i][1] \notin visited'
                   /\ frontier'[i][2] = GPlusH(g_costs', node_coordinates',
                                              frontier'[i][1], goal_node')
       /\ (pc = "search" /\ searchType = "A*" /\ frontier # <<>>)
          => PopsSmallest(FCosts)]_vars

\* C15 (amended): as claimed, except that the entry a_star_search starts
\* with is (start, 0), whatever h(start, goal) is; every entry pushed by
\* the loop has f = g_costs[n] + h(n, goal).
C15_AStarFrontierInvariantButSeed ==
    [][/\ (pc' = "search" /\ searchType' = "A*")
          => /\ OneEntryPerNode(frontier')
             /\ \A i \in DOMAIN frontier' :
                   /\ frontier'[i][1] \notin visited'
                   /\ \/ frontier'[i][2] = GPlusH(g_costs', node_coordinates',
                                                 frontier'[i][1], goal_node')
                      \/ /\ visited' = {}
                         /\ frontier' = <<<<start_node', Num(0)>>>>
       /\ (pc = "search" /\ searchType = "A*" /\ frontier # <<>>)
          => PopsSmallest(FCosts)]_vars

\* Two nodes are expanded, two entries wait in the frontier, and the entry
\* of one of them was replaced by a cheaper one.
C15_Witness ==
    /\ LowerGCostAccepted
    /\ Cardinality(visited) = 2 /\ Len(frontier) = 2

\* The position of node n's entry in the frontier F (n has one entry).
EntryOf(F, n) == CHOOSE j \in DOMAIN F : F[j][1] = n

\* A turn of best_first_search that pops frontier[i]: no entry has a smaller
\* value; if its node p is the goal the search returns, else p is marked
\* visited and the frontier becomes the other entries, in ascending order of
\* their values (entries of equal value in the order they had), followed by
\* the unvisited neighbours of p that had no entry; an entry of a neighbour
\* of p has the smaller of its value and heuristics[p][n], every other entry
\* its value, and a new entry the value heuristics[p][n].
BestTurn(i) ==
    LET p == frontier[i][1]
        Old == {frontier[j][1] : j \in DOMAIN frontier \ {i}}
        Found == Adjacent(graph, {p}) \ (visited \cup {p})
        Before(a, b) ==
            \/ frontier[EntryOf(frontier, a)][2] < frontier[EntryOf(frontier, b)][2]
            \/ /\ frontier[EntryOf(frontier, a)][2] = frontier[EntryOf(frontier, b)][2]
               /\ EntryOf(frontier, a) < EntryOf(frontier, b)
    IN  /\ \A j \in DOMAIN frontier : frontier[j][2] >= frontier[i][2]
        /\ \/ pc' = "returned" /\ p = goal_node /\ visited' = visited
           \/ /\ pc' = "search"
              /\ visited' = visited \cup {p}
              /\ {frontier'[k][1] : k \in DOMAIN frontier'} = Old \cup Found
              /\ \A k \in DOMAIN frontier' :
                    LET n == frontier'[k][1]
                        was == frontier[EntryOf(frontier, n)][2]
                    IN  frontier'[k][2] =
                            IF n \notin Old THEN heuristics[p][n]
                            ELSE IF n \in Found /\ heuristics[p][n] < was
                              THEN heuristics[p][n]
                            ELSE was
              /\ \A k \in DOMAIN frontier', m \in DOMAIN frontier' :
                    (k < m /\ frontier'[m][1] \in Old)
                    => /\ frontier'[k][1] \in Old
                       /\ Before(frontier'[k][1], frontier'[m][1])

\* C16: in best_first_search, at every point of the run the frontier holds
\* at most one entry per node and no frontier node is in the visited set;
\* pop removes an entry with the smallest heuristic value; finding a frontier
\* node again with a smaller heuristic value lowers its entry's value in
\* place, finding it with an equal or larger one leaves the entry as it is.
C16_BestFrontierInvariant ==
    [][/\ (pc' = "search" /\ searchType' = "BEST")
          => /\ OneEntryPerNode(frontier')
             /\ \A i \in DOMAIN frontier' : frontier'[i][1] \notin visited'
       /\ (pc = "search" /\ searchType = "BEST" /\ frontier # <<>>)
          => \E i \in DOMAIN frontier : BestTurn(i)]_vars

\* The first entry of the frontier has a value below the heuristic value from
\* its recorded parent (another expanded node found it again with a smaller
\* one), and an entry pushed later waits behind it.
C16_Witness ==
    /\ pc = "search" /\ searchType = "BEST" /\ Len(frontier) >= 2
    /\ parent[frontier[1][1]] \in visited
    /\ frontier[1][2] < heuristics[parent[frontier[1][1]]][frontier[1][1]]
    /\ \E q \in visited : parent[frontier[2][1]] = q /\ q # parent[frontier[1][1]]

\* The labels of the entries bfs has appended to its queue in this turn,
\* in the order of the queue.
Pushed ==
    [k \in 1..(Len(frontier') - Len(frontier) + 1) |->
        frontier'[Len(frontier) - 1 + k].label]

\* No two entries of the queue are for the same node.
NoNodeTwice(Q) == \A i \in DOMAIN Q, j \in DOMAIN Q : Q[i].label = Q[j].label => i = j

\* C17: in bfs the children pushed for a dequeued node are exactly its
\* neighbours that are neither visited nor already queued, in ascending
\* alphabetical order; so the queue never holds the same node twice and a
\* dequeued node is never already in the visited set.
C17_BfsQueueWithoutDuplicates ==
    [][/\ (pc = "search" /\ searchType = "BREADTH" /\ Expands)
          => /\ Len(frontier') >= Len(frontier) - 1
             /\ SubSeq(frontier', 1, Len(frontier) - 1) = Tail(frontier)
             /\ {Pushed[k] : k \in DOMAIN Pushed}
                   = UnvisitedNeighbours \ {frontier[j].label : j \in DOMAIN frontier}
             /\ \A k \in DOMAIN Pushed, m \in DOMAIN Pushed :
                   k < m => LabelOrd[Pushed[k]] <= LabelOrd[Pushed[m]]
       /\ (pc' = "search" /\ searchType' = "BREADTH") => NoNodeTwice(frontier')
       /\ (pc = "search" /\ searchType = "BREADTH" /\ frontier # <<>>)
          => Popped \notin visited]_vars

\* The alphabetically first node of the set S.
First(S) == CHOOSE n \in S : \A m \in S : LabelOrd[n] <= LabelOrd[m]

\* C18: in dfs, when a node N is expanded and has an unvisited neighbour, the
\* next node to be marked visited is the alphabetically first unvisited
\* neighbour of N, before N's other unvisited neighbours and before any node
\* already waiting on the stack: the turn that expands N leaves that
\* neighbour, still unvisited, at the head of the stack, and a turn that pops
\* an unvisited node marks that node visited and no other.
C18_DfsFirstUnvisitedNeighbourNext ==
    [][(pc = "search" /\ searchType = "DEPTH")
       => /\ (Expands /\ UnvisitedNeighbours # {})
             => /\ pc' = "search"
                /\ frontier' # <<>>
                /\ Head(frontier').label = First(UnvisitedNeighbours)
                /\ Head(frontier').label \notin visited'
          /\ (frontier # <<>> /\ Popped \notin visited)
             => visited' = visited \cup {Popped}]_vars

\* dfs has expanded start and one of its neighbours, whose unvisited
\* neighbour is now at the head of the stack, ahead of an entry that was
\* waiting there.
C18_Witness ==
    /\ pc = "search" /\ searchType = "DEPTH"
    /\ Cardinality(visited) = 2 /\ Len(frontier) >= 2
    /\ Head(frontier).label \notin visited
    /\ parent[Head(frontier).label] # start_node

\* C19: in all four strategies a node is expanded at most once per search:
\* a node of the visited set stays in it; bfs and dfs, popping a node that is
\* visited already, drop the entry and change nothing else; the frontier of
\* best_first_search and of a_star_search never holds a visited node, so they
\* never pop one.  In a_star_search the g-cost and the parent of a visited
\* node are never changed again and it never re-enters the frontier, also
\* when a cheaper route to it is found later.
C19_ExpandedAtMostOnce ==
    [][pc = "search"
       => /\ visited \subseteq visited'
          /\ (searchType \in {"BREADTH", "DEPTH"} /\ frontier # <<>>
                 /\ Popped \in visited)
             => /\ frontier' = Tail(frontier)
                /\ visited' = visited
                /\ parent' = parent
                /\ pc' = "search"
          /\ searchType \in {"BEST", "A*"} => FrontierNodes' \cap visited' = {}
          /\ searchType = "A*"
             => \A n \in visited :
                   /\ g_costs'[n] = g_costs[n]
                   /\ parent'[n] = parent[n]]_vars

\* a_star_search has expanded two nodes n and q joined by an edge, and the
\* route to n through q is cheaper than the g-cost recorded for n.
C19_Witness ==
    /\ pc = "search" /\ searchType = "A*"
    /\ \E n \in visited, q \in visited :
          \E w \in EdgeWeights(graph, q, n) : g_costs[q] + w < g_costs[n]

\* C20: no step of the four search functions or of reconstruct_path (called
\* in the turn that pops the goal) modifies the adjacency mapping, the
\* heuristic table or the node coordinates: they are the same before and
\* after every turn of a search loop and after the return, by a goal hit or
\* by an empty frontier.
C20_GraphReadOnlyDuringSearch ==
    [][(pc \in {"search", "returned"})
       => /\ graph' = graph
          /\ heuristics' = heuristics
          /\ node_coordinates' = node_coordinates]_vars

\* A search has returned a path of three nodes on a graph of three lines in
\* which the neighbours of start are not in alphabetical order.
C20_Witness ==
    /\ pc = "returned" /\ nlines = 3 /\ Len(ret.path) = 3
    /\ Len(graph[start_node]) >= 2
    /\ LabelOrd[graph[start_node][1].label] > LabelOrd[graph[start_node][2].label]

\* C21: the result (path, total cost) of a search call on a Searcher depends
\* only on the loaded graph, the strategy and the start/goal pair: whatever
\* searches ran earlier on the same Searcher (a_star_search, which leaves
\* g_costs on the instance, among them), a search returns what the same search
\* function returns on a Searcher on which no search has run.
C21_ResultIndependentOfEarlierSearches ==
    pc = "returned"
    => ret = search_result(searchType, graph, heuristics, node_coordinates,
                           start_node, goal_node)

\* dfs has returned a path of three nodes on a Searcher that still has the
\* g_costs of an earlier a_star_search from another start node.
C21_Witness ==
    /\ pc = "returned" /\ searchType = "DEPTH" /\ Len(ret.path) = 3
    /\ start_node \in DOMAIN g_costs /\ g_costs[start_node] > 0

\* No node occurs twice in the path.
Simple(path) == \A i \in DOMAIN path, j \in DOMAIN path : path[i] = path[j] => i = j

\* C22: for each of the four strategies, every non-empty returned path is a
\* simple path of the graph: no node occurs twice in it and every two
\* consecutive nodes are joined by an edge of the adjacency mapping.
C22_ReturnedPathIsSimplePath ==
    (pc = "returned" /\ ret.path # <<>>)
    => /\ Simple(ret.path)
       /\ IsPath(graph, ret.path)
       /\ \A i \in DOMAIN ret.path : ret.path[i] \in DOMAIN graph

\* dfs has returned a path of four nodes whose third node is a neighbour of
\* start as well: its parent entry was start before the second node of the
\* path was expanded.
C22_Witness ==
    /\ pc = "returned" /\ searchType = "DEPTH" /\ Len(ret.path) = 4
    /\ ret.path[3] \in Adjacent(graph, {start_node})

\* The node a turn of the running search pops (the frontier is not empty).
PoppedNode ==
    CASE searchType \in {"BREADTH", "DEPTH"} -> Head(frontier).label
      [] searchType = "BEST" -> sort(frontier, by_heuristic(frontier))[1][1]
      [] searchType = "A*" -> sort(frontier, by_f_cost(frontier))[1][1]

\* C23: each of the four strategies is complete on finite graphs.  A turn of
\* the loop that does not leave it brings the search nearer to its end (one
\* more node visited, or one entry less in the frontier and no node less
\* visited), so the loop is left after finitely many turns; when the goal is
\* reachable from start the loop is left by dequeuing the goal, with a
\* non-empty path from start to goal returned; the loop is left with the
\* frontier empty, and the empty path returned, only when the goal is not
\* reachable from start.
C23_SearchComplete ==
    [][pc = "search"
       => /\ pc' \in {"search", "returned"}
          /\ pc' = "search"
             => /\ frontier # <<>>
                /\ \/ Unvisited(visited') < Unvisited(visited)
                   \/ /\ Unvisited(visited') = Unvisited(visited)
                      /\ Len(frontier') < Len(frontier)
          /\ (pc' = "returned" /\ GoalReachable)
             => /\ frontier # <<>>
                /\ PoppedNode = goal_node
                /\ ret'.value = "tuple"
                /\ ret'.path # <<>>
                /\ Head(ret'.path) = start_node
                /\ Last(ret'.path) = goal_node
          /\ (pc' = "returned" /\ (frontier = <<>> \/ ret'.path = <<>>))
             => /\ ~GoalReachable
                /\ frontier = <<>>
                /\ ret'.path = <<>>]_vars

\* best_first_search has expanded three nodes before it dequeued the goal,
\* a neighbour of start that was in the frontier from the first turn on.
C23_Witness ==
    /\ pc = "returned" /\ searchType = "BEST" /\ GoalReachable
    /\ Cardinality(visited) = 3 /\ Len(ret.path) = 2

\* Following the parent links of P from n reaches start within k steps.
RECURSIVE ReachesStart(_, _, _, _)
ReachesStart(P, start, n, k) ==
    \/ n = start
    \/ /\ k > 0
       /\ n \in DOMAIN P
       /\ P[n] # None
       /\ ReachesStart(P, start, P[n], k - 1)

\* C24: in every reachable state of each of the four searches the parent map
\* is a tree rooted at start: parent[start] is None, every other recorded
\* parent is a node of the visited set, and following the parent links from
\* any node of the map reaches start without a cycle (within as many steps
\* as the map has other entries); so reconstruct_path, whenever a search
\* calls it, ends and returns.
C24_ParentMapIsTree ==
    /\ pc \in {"search", "returned"}
       => /\ start_node \in DOMAIN parent
          /\ parent[start_node] = None
          /\ \A n \in DOMAIN parent \ {start_node} :
                /\ parent[n] \in visited
                /\ parent[n] \in DOMAIN parent
                /\ ReachesStart(parent, start_node, n, Cardinality(DOMAIN parent) - 1)
    /\ pc # "hang"
    /\ (pc = "returned" /\ ret.path # <<>>)
       => ret = reconstruct_path(parent, start_node, goal_node, graph)

\* dfs runs on a graph with an edge from start to itself; the parent map has
\* three entries, one of them two links away from start.
C24_Witness ==
    /\ pc = "search" /\ searchType = "DEPTH"
    /\ start_node \in Adjacent(graph, {start_node})
    /\ Cardinality(DOMAIN parent) = 3
    /\ \E n \in DOMAIN parent :
          parent[n] \notin {None, start_node} /\ parent[parent[n]] = start_node

\* C25: in a_star_search on every graph the loader can build (repeated lines
\* for the same node pair included), when the goal is dequeued the total cost
\* returned by reconstruct_path equals the recorded g-cost of the goal, and
\* for every node n with a parent, g_costs[n] = g_costs[parent[n]] + the
\* weight of an edge from parent[n] to n.
C25_AStarCostIsGoalGCost ==
    /\ (pc = "returned" /\ searchType = "A*" /\ ret.path # <<>>)
       => ret.total_cost = g_costs[goal_node]
    /\ (pc \in {"search", "returned"} /\ searchType = "A*")
       => \A n \in DOMAIN parent :
             parent[n] # None
             => \E w \in EdgeWeights(graph, parent[n], n) :
                   g_costs[n] = g_costs[parent[n]] + w

\* The nodes of V that have an edge to n.
VisitedNeighbours(G, V, n) == {m \in V : n \in Adjacent(G, {m})}

\* p is the minimum of H[m][n] over the nodes m of S.
IsMinHeuristic(H, S, n, p) ==
    /\ \E m \in S : H[m][n] = p
    /\ \A m \in S : H[m][n] >= p

\* Every entry (n, p) of the frontier F has p = the minimum of H[m][n] over
\* the visited nodes m adjacent to n.
BestPriorities(G, H, V, F) ==
    \A i \in DOMAIN F :
        IsMinHeuristic(H, VisitedNeighbours(G, V, F[i][1]), F[i][1], F[i][2])

\* The turn of best_first_search grows the visited set as Prim's algorithm
\* grows its tree: no edge from a visited node to an unvisited one has a
\* heuristic value below the priority of the popped node.
PrimStep ==
    \A m \in visited : \A n \in Adjacent(graph, {m}) \ visited :
        heuristics[m][n] >= frontier[EntryOf(frontier, PoppedNode)][2]

\* The turn of best_first_search leaves every entry of the parent map as it
\* is, and gives a node without an entry the popped node, a neighbour of it,
\* as parent.
ParentIsFirstDiscoverer ==
    \A n \in DOMAIN parent' :
        IF n \in DOMAIN parent THEN parent'[n] = parent[n]
        ELSE /\ parent'[n] = PoppedNode
             /\ n \in Adjacent(graph, {PoppedNode})

\* C26 (as claimed): in best_first_search, at the start of every loop
\* iteration the priority of each frontier node n equals the minimum of
\* heuristics[m][n] over all visited nodes m adjacent to n (so nodes are
\* expanded in the order of Prim's growth from start), while parent[n] is the
\* first visited neighbour that discovered n.
C26_BestPriorityIsMinOverVisited ==
    [][/\ (pc' = "search" /\ searchType' = "BEST")
          => BestPriorities(graph', heuristics', visited', frontier')
       /\ (pc = "search" /\ searchType = "BEST" /\ frontier # <<>>)
          => /\ visited # {} => PrimStep
             /\ pc' = "search" => ParentIsFirstDiscoverer]_vars

\* C26 (amended): as claimed at the start of every loop iteration but the
\* first, which finds the frontier holding only the entry (start, 0) that
\* best_first_search starts with, start having no visited neighbour yet.
C26_BestPriorityIsMinButSeed ==
    [][/\ (pc' = "search" /\ searchType' = "BEST")
          => \/ BestPriorities(graph', heuristics', visited', frontier')
             \/ visited' = {} /\ frontier' = <<<<start_node', 0>>>>
       /\ (pc = "search" /\ searchType = "BEST" /\ frontier # <<>>)
          => /\ visited # {} => PrimStep
             /\ pc' = "search" => ParentIsFirstDiscoverer]_vars

\* A frontier node with two visited neighbours whose priority is the
\* heuristic value from the one that is not its parent: the parent, which
\* discovered it, does not attain the minimum.
C26_Witness ==
    /\ pc = "search" /\ searchType = "BEST"
    /\ \E i \in DOMAIN frontier :
          LET n == frontier[i][1]
          IN  /\ Cardinality(VisitedNeighbours(graph, visited, n)) = 2
              /\ \E m \in VisitedNeighbours(graph, visited, n) \ {parent[n]} :
                    /\ heuristics[m][n] = frontier[i][2]
                    /\ heuristics[m][n] < heuristics[parent[n]][n]

\* C27: for each of the four strategies, when start equals goal and is a node
\* of the graph, the search returns the one-element path [start] with total
\* cost 0 on the first pop, without generating any children (nothing is pushed
\* on the frontier, OPEN is not rewritten, no g-cost is recorded) or adding a
\* parent entry beyond the one of start.
C27_StartIsGoal ==
    [][(pc = "search" /\ start_node = goal_node)
       => /\ start_node \in DOMAIN graph
          /\ visited = {}
          /\ Len(frontier) = 1
          /\ PoppedNode = start_node
          /\ pc' = "returned"
          /\ ret' = Returned(<<start_node>>, 0)
          /\ frontier' = <<>>
          /\ parent = Put(EmptyDict, start_node, None)
          /\ parent' = parent
          /\ g_costs' = g_costs
          /\ OPEN' = OPEN
          /\ visited' \subseteq {start_node}]_vars

\* A search from a node to itself has returned; the node has an edge to
\* itself and an edge to another node.
C27_Witness ==
    /\ pc = "returned" /\ start_node = goal_node
    /\ start_node \in Adjacent(graph, {start_node})
    /\ Adjacent(graph, {start_node}) # {start_node}
    /\ searchType \in {"BREADTH", "A*"}

====
